---- MODULE Spec2Model ----
(***************************************************************************)
(* Model of src/brandfetch-proxy.js: the Brand Proxy (GET /brandkit) and   *)
(* the Ad Generator (GET /generate-ads).                                   *)
(*                                                                         *)
(* JavaScript values are tagged records: undefined, null, strings, arrays  *)
(* and objects (an object holds exactly the fields that are present).      *)
(* A handler is cut at its await points: every piece between two awaits is *)
(* one action, and the arrival of a remote reply is an action of the       *)
(* environment.  A thrown exception is a result record with threw = TRUE.  *)
(* The source's non-breaking hyphens (U+2011) in three template literals   *)
(* are written "-" here.                                                   *)
(***************************************************************************)
EXTENDS Integers, Sequences, FiniteSets, TLC

VARIABLES pc, req, local, fetchResult, bodyResult, res, calls, responses

vars == <<pc, req, local, fetchResult, bodyResult, res, calls, responses>>

(***************************************************************************)
(* Bounds of the model.                                                    *)
(***************************************************************************)
MaxColors == 2      \* longest kit.colors array the upstream returns
MaxCountLen == 2    \* longest count query string
NumReqs == 2        \* request slots of the concurrent specification

Reqs == 1..NumReqs
SoloReqs == {1}

(***************************************************************************)
(* JavaScript values.                                                      *)
(***************************************************************************)
Undefined == [t |-> "undefined"]
Null == [t |-> "null"]
Str(s) == [t |-> "string", v |-> s]
Arr(xs) == [t |-> "array", items |-> xs]
Obj(f) == [t |-> "object", f |-> f]
None == [t |-> "none"]

\* JavaScript truthiness (ToBoolean) on the values of this model.
Truthy(v) ==
    CASE v.t = "undefined" -> FALSE
      [] v.t = "null" -> FALSE
      [] v.t = "string" -> v.v # ""
      [] OTHER -> TRUE

\* a || b
Or(a, b) == IF Truthy(a) THEN a ELSE b

\* v.k on a value that is neither null nor undefined.
Prop(v, k) ==
    IF v.t = "object" /\ k \in DOMAIN v.f THEN v.f[k] ELSE Undefined

Threw(m) == [threw |-> TRUE, message |-> m]
Returned(x) == [threw |-> FALSE, value |-> x]

(***************************************************************************)
(* parseInt(string, 10) on a string given as its sequence of characters.   *)
(***************************************************************************)
Digits == {"0", "1", "2", "3", "4", "5", "6", "7", "8", "9"}
WhiteSpace == {" "}
DigitVal(c) ==
    CASE c = "0" -> 0 [] c = "1" -> 1 [] c = "2" -> 2 [] c = "3" -> 3
      [] c = "4" -> 4 [] c = "5" -> 5 [] c = "6" -> 6 [] c = "7" -> 7
      [] c = "8" -> 8 [] c = "9" -> 9

NaN == [nan |-> TRUE, n |-> 0]
Num(n) == [nan |-> FALSE, n |-> n]

RECURSIVE SkipWhiteSpace(_)
SkipWhiteSpace(cs) ==
    IF cs # <<>> /\ Head(cs) \in WhiteSpace THEN SkipWhiteSpace(Tail(cs)) ELSE cs

RECURSIVE DigitPrefix(_)
DigitPrefix(cs) ==
    IF cs # <<>> /\ Head(cs) \in Digits
    THEN <<Head(cs)>> \o DigitPrefix(Tail(cs))
    ELSE <<>>

RECURSIVE DigitsValue(_, _)
DigitsValue(ds, acc) ==
    IF ds = <<>> THEN acc ELSE DigitsValue(Tail(ds), 10 * acc + DigitVal(Head(ds)))

parseInt(v) ==
    IF v.t # "string" THEN NaN
    ELSE LET s == SkipWhiteSpace(v.v)
             neg == s # <<>> /\ Head(s) = "-"
             signed == s # <<>> /\ Head(s) \in {"-", "+"}
             ds == DigitPrefix(IF signed THEN Tail(s) ELSE s)
         IN IF ds = <<>> THEN NaN
            ELSE Num(IF neg THEN 0 - DigitsValue(ds, 0) ELSE DigitsValue(ds, 0))

DefaultCount == 3

\* parseInt(req.query.count, 10) || 3 : NaN and 0 are both falsy.
CountOf(v) ==
    LET p == parseInt(v) IN IF p.nan \/ p.n = 0 THEN DefaultCount ELSE p.n

(***************************************************************************)
(* The template table (lines 63-114).  `${brand}` is String(brand).        *)
(***************************************************************************)
ToJSString(v) ==
    CASE v.t = "string" -> v.v
      [] v.t = "null" -> "null"
      [] v.t = "undefined" -> "undefined"
      [] OTHER -> "[object Object]"

templatesLength == 10

templateFn(k, brand) ==
    LET b == ToJSString(brand) IN
    CASE k = 0 -> [headline |-> "Experience " \o b \o " first-hand",
                   text |-> "See how " \o b \o " can transform your business. Book a live demo today!",
                   cta |-> "REQUEST_DEMO"]
      [] k = 1 -> [headline |-> "Join our upcoming " \o b \o " webinar",
                   text |-> "Learn industry best practices and how " \o b \o " is leading the way in innovation. Reserve your seat now.",
                   cta |-> "ATTEND"]
      [] k = 2 -> [headline |-> "Ready to get started with " \o b \o "?",
                   text |-> "Apply now and start leveraging " \o b \o " to grow your business.",
                   cta |-> "APPLY_NOW"]
      [] k = 3 -> [headline |-> "Unlock your exclusive " \o b \o " guide",
                   text |-> "Download the full document and learn how " \o b \o " can help you optimise workflows.",
                   cta |-> "UNLOCK_FULL_DOCUMENT"]
      [] k = 4 -> [headline |-> "Discover the power of " \o b,
                   text |-> "Learn more about " \o b \o "'s solutions and see why industry leaders choose us.",
                   cta |-> "LEARN_MORE"]
      [] k = 5 -> [headline |-> "Start your free trial of " \o b,
                   text |-> "Sign up today and experience the benefits of " \o b \o " without any commitment.",
                   cta |-> "SIGN_UP"]
      [] k = 6 -> [headline |-> "Free eBook: " \o b \o " best practices",
                   text |-> "Download our free eBook packed with insights and strategies to get the most out of " \o b \o ".",
                   cta |-> "DOWNLOAD"]
      [] k = 7 -> [headline |-> "Get your personalised " \o b \o " quote",
                   text |-> "Find out how affordable " \o b \o " can be for your organisation.",
                   cta |-> "GET_QUOTE"]
      [] k = 8 -> [headline |-> "Register for an upcoming " \o b \o " workshop",
                   text |-> "Hands-on training from the experts. Reserve your spot and accelerate your learning.",
                   cta |-> "REGISTER"]
      [] k = 9 -> [headline |-> "Join the " \o b \o " community",
                   text |-> "Be part of a vibrant network of professionals and stay ahead with the latest updates from " \o b \o ".",
                   cta |-> "JOIN"]

(***************************************************************************)
(* generateAdsForKit (lines 136-158).                                      *)
(***************************************************************************)
DefaultColour == Str("#0052cc")

\* Mutant: the fallback order swapped (kit.domain || kit.name).
BrandNameOf_DomainFirst(kit) ==
    Or(Or(Prop(kit, "domain"), Prop(kit, "name")), Str("Your brand"))

\* kit.name || kit.domain || 'Your brand' (line 138)
BrandNameOf(kit) ==
    Or(Or(Prop(kit, "name"), Prop(kit, "domain")), Str("Your brand"))

\* Mutant: a scan that guards the entry (c && c.hex), so a null entry is
\* skipped instead of throwing.
RECURSIVE FindAccent_SkipsNull(_, _)
FindAccent_SkipsNull(items, i) ==
    IF i > Len(items) THEN Returned(Undefined)
    ELSE IF Truthy(items[i]) /\ Truthy(Prop(items[i], "hex")) THEN Returned(items[i])
         ELSE FindAccent_SkipsNull(items, i + 1)

\* kit.colors.find((c) => c.hex) from index i on (line 144): reading .hex of
\* a null entry throws; the scan stops at the first entry with a truthy hex.
RECURSIVE FindAccent(_, _)
FindAccent(items, i) ==
    IF i > Len(items) THEN Returned(Undefined)
    ELSE IF items[i].t \in {"null", "undefined"}
         THEN Threw(<<"Cannot read properties of null (reading 'hex')">>)
         ELSE IF Truthy(Prop(items[i], "hex")) THEN Returned(items[i])
              ELSE FindAccent(items, i + 1)

\* Mutant: only kit.colors[0] is looked at (kit.colors[0].hex || default).
PrimaryColourOf_FirstEntry(kit) ==
    LET colors == Prop(kit, "colors") IN
    IF colors.t = "array" /\ Len(colors.items) > 0
    THEN IF colors.items[1].t \in {"null", "undefined"}
         THEN Threw(<<"Cannot read properties of null (reading 'hex')">>)
         ELSE Returned(Or(Prop(colors.items[1], "hex"), DefaultColour))
    ELSE Returned(DefaultColour)

\* lines 141-146
PrimaryColourOf(kit) ==
    LET colors == Prop(kit, "colors") IN
    IF colors.t = "array" /\ Len(colors.items) > 0
    THEN LET found == FindAccent(colors.items, 1) IN
         IF found.threw THEN found
         ELSE LET accent == found.value IN
              IF Truthy(accent) /\ Truthy(Prop(accent, "hex"))
              THEN Returned(Prop(accent, "hex"))
              ELSE Returned(DefaultColour)
    ELSE Returned(DefaultColour)

\* The ad pushed in iteration i of the loop (lines 148-155).
AdAt(i, brandName, primaryColour) ==
    LET t == templateFn(i % templatesLength, brandName) IN
    [headline |-> t.headline, text |-> t.text, cta |-> t.cta, color |-> primaryColour]

generateAdsForKit(kit, count) ==
    IF kit.t \in {"null", "undefined"}
    THEN Threw(<<"Cannot read properties of null (reading 'name')">>)
    ELSE LET brandName == BrandNameOf(kit)
             colour == PrimaryColourOf(kit)
         IN IF colour.threw THEN colour
            ELSE Returned([j \in 1..count |-> AdAt(j - 1, brandName, colour.value)])

(***************************************************************************)
(* Remote replies.  fetch() settles when the status line has arrived or    *)
(* the connection has failed; the body is read by response.json().  A body *)
(* is abstracted to whether it is well-formed JSON and to the value it     *)
(* denotes.                                                                *)
(***************************************************************************)
StatusText(s) ==
    CASE s = 200 -> "OK" [] s = 404 -> "Not Found" [] s = 500 -> "Internal Server Error"

NetworkError(m) == [kind |-> "error", message |-> m]
Response(s) == [kind |-> "response", status |-> s, statusText |-> StatusText(s)]
JsonBody(v) == [wellFormed |-> TRUE, value |-> v]
GarbageBody == [wellFormed |-> FALSE, value |-> Undefined]

\* res.ok
Ok(r) == r.status >= 200 /\ r.status < 300

\* response.json()
ParseJson(body) ==
    IF body.wellFormed THEN Returned(body.value)
    ELSE Threw(<<"invalid json response body">>)

\* Mutant: the message carries the status text but not the status code.
FailedToFetchMessage_NoStatus(domain, r) ==
    <<"Failed to fetch brand kit for ", ToJSString(domain), ": ", r.statusText>>

\* line 125
FailedToFetchMessage(domain, r) ==
    <<"Failed to fetch brand kit for ", ToJSString(domain), ": ",
      ToString(r.status), " ", r.statusText>>

(***************************************************************************)
(* Inputs.                                                                 *)
(***************************************************************************)
Domains == {Undefined, Str(""), Str("example.com")}

CountChars == {"0", "2", "-", "x"}
CountStrings == UNION {[1..n -> CountChars] : n \in 0..MaxCountLen}
CountParams == {Undefined} \cup {Str(cs) : cs \in CountStrings}

ColorEntries == {Null, Obj([hex |-> Null]), Obj([hex |-> Str("#abc123")]),
                 Obj([hex |-> Str("#ffffff")])}
ColorArrays == UNION {[1..n -> ColorEntries] : n \in 0..MaxColors}
KitFields == {"name", "domain", "colors"}
KitChoices == [name : {Undefined, Str(""), Str("Acme")},
               domain : {Undefined, Str("acme.com")},
               colors : {Undefined, Str("red")} \cup {Arr(a) : a \in ColorArrays}]
MkObj(c) == Obj([k \in {f \in KitFields : c[f] # Undefined} |-> c[k]])
Kits == {Null, Str("maintenance")} \cup {MkObj(c) : c \in KitChoices}

Statuses == {200, 404, 500}
FetchOutcomes == {NetworkError(<<"connect ECONNREFUSED">>)} \cup {Response(s) : s \in Statuses}
Bodies == {GarbageBody} \cup {JsonBody(k) : k \in Kits}

\* The small input sets of the concurrent specification.
ConcDomains == {Undefined, Str("example.com")}
ConcCountParams == {Undefined, Str(<<"2">>)}
ConcFetchOutcomes == {NetworkError(<<"connect ECONNREFUSED">>), Response(200), Response(404)}
ConcBodies == {GarbageBody,
               JsonBody(Obj([name |-> Str("Acme")])),
               JsonBody(Obj([domain |-> Str("acme.com"),
                             colors |-> Arr(<<Obj([hex |-> Str("#abc123")])>>)]))}

(***************************************************************************)
(* State.  Every request slot r has its own handler invocation:            *)
(*   pc[r]          where the handler stands                               *)
(*   req[r]         the request: route and query parameters                *)
(*   local[r]       the handler's local `count`                            *)
(*   fetchResult[r] how the outbound fetch() settled                       *)
(*   bodyResult[r]  the body read by response.json()                       *)
(*   res[r]         the response sent                                      *)
(*   calls[r], responses[r]  outbound calls issued, responses sent         *)
(***************************************************************************)
Init ==
    /\ pc = [r \in Reqs |-> "idle"]
    /\ req = [r \in Reqs |-> None]
    /\ local = [r \in Reqs |-> None]
    /\ fetchResult = [r \in Reqs |-> None]
    /\ bodyResult = [r \in Reqs |-> None]
    /\ res = [r \in Reqs |-> None]
    /\ calls = [r \in Reqs |-> 0]
    /\ responses = [r \in Reqs |-> 0]

\* res.status(s).json(b)
Send(r, s, b) ==
    /\ res' = [res EXCEPT ![r] = [status |-> s, body |-> b]]
    /\ responses' = [responses EXCEPT ![r] = @ + 1]
    /\ pc' = [pc EXCEPT ![r] = "done"]

\* The catch clause of /generate-ads (lines 170-173).
CatchAndRespond(r, message) == Send(r, 500, [error |-> message])

\* Mutant: only an absent parameter counts as missing (domain === undefined).
MissingDomain_UndefinedOnly(domain) == domain = Undefined

\* !domain (line 163)
MissingDomain(domain) == ~Truthy(domain)

\* /generate-ads up to its first await (lines 160-167, 121-123).
GenerateAdsStart(r, domain, count) ==
    /\ pc[r] = "idle"
    /\ req' = [req EXCEPT ![r] = [route |-> "/generate-ads",
                                  query |-> [domain |-> domain, count |-> count]]]
    /\ local' = [local EXCEPT ![r] = [count |-> CountOf(count)]]
    /\ IF MissingDomain(domain)
       THEN /\ Send(r, 400, [error |-> <<"Missing required query parameter: domain">>])
            /\ UNCHANGED calls
       ELSE /\ calls' = [calls EXCEPT ![r] = @ + 1]
            /\ pc' = [pc EXCEPT ![r] = "awaitFetch"]
            /\ UNCHANGED <<res, responses>>
    /\ UNCHANGED <<fetchResult, bodyResult>>

\* /brandkit up to its first await (lines 6-11): no validation of domain.
BrandkitStart(r, domain) ==
    /\ pc[r] = "idle"
    /\ req' = [req EXCEPT ![r] = [route |-> "/brandkit", query |-> [domain |-> domain]]]
    /\ calls' = [calls EXCEPT ![r] = @ + 1]
    /\ pc' = [pc EXCEPT ![r] = "awaitFetch"]
    /\ UNCHANGED <<local, fetchResult, bodyResult, res, responses>>

\* Environment: the outbound fetch() settles.
RemoteResponds(r, outcome) ==
    /\ pc[r] = "awaitFetch"
    /\ fetchResult' = [fetchResult EXCEPT ![r] = outcome]
    /\ pc' = [pc EXCEPT ![r] = "fetched"]
    /\ UNCHANGED <<req, local, bodyResult, res, calls, responses>>

\* Environment: the body of the reply has been read.
RemoteBody(r, body) ==
    /\ pc[r] = "awaitBody"
    /\ bodyResult' = [bodyResult EXCEPT ![r] = body]
    /\ pc' = [pc EXCEPT ![r] = "bodyRead"]
    /\ UNCHANGED <<req, local, fetchResult, res, calls, responses>>

\* Mutant: a failed call is issued once more before giving up.
FetchBrandKitResume_RetryOnce(r) ==
    /\ pc[r] = "fetched"
    /\ req[r].route = "/generate-ads"
    /\ LET f == fetchResult[r] IN
       IF f.kind = "error" /\ calls[r] < 2
       THEN /\ calls' = [calls EXCEPT ![r] = @ + 1]
            /\ pc' = [pc EXCEPT ![r] = "awaitFetch"]
            /\ UNCHANGED <<res, responses>>
       ELSE /\ IF f.kind = "error" THEN CatchAndRespond(r, f.message)
               ELSE IF ~Ok(f)
                    THEN CatchAndRespond(r, FailedToFetchMessage(req[r].query.domain, f))
                    ELSE /\ pc' = [pc EXCEPT ![r] = "awaitBody"]
                         /\ UNCHANGED <<res, responses>>
            /\ UNCHANGED calls
    /\ UNCHANGED <<req, local, fetchResult, bodyResult>>

\* fetchBrandKit after `await fetch(url)` (lines 123-127); a rejection or the
\* thrown Error reaches the catch clause of the handler.
FetchBrandKitResume(r) ==
    /\ pc[r] = "fetched"
    /\ req[r].route = "/generate-ads"
    /\ LET f == fetchResult[r] IN
       IF f.kind = "error" THEN CatchAndRespond(r, f.message)
       ELSE IF ~Ok(f)
            THEN CatchAndRespond(r, FailedToFetchMessage(req[r].query.domain, f))
            ELSE /\ pc' = [pc EXCEPT ![r] = "awaitBody"]
                 /\ UNCHANGED <<res, responses>>
    /\ UNCHANGED <<req, local, fetchResult, bodyResult, calls>>

\* Mutant: the template index continues from a cursor shared by all requests
\* (here: the number of responses sent so far) instead of starting at 0.
GenerateAdsFinish_SharedCursor(r) ==
    /\ pc[r] = "bodyRead"
    /\ req[r].route = "/generate-ads"
    /\ LET kit == ParseJson(bodyResult[r])
           cursor == Cardinality({q \in Reqs : pc[q] = "done"})
       IN
       IF kit.threw THEN CatchAndRespond(r, kit.message)
       ELSE LET ads == generateAdsForKit(kit.value, local[r].count) IN
            IF ads.threw THEN CatchAndRespond(r, ads.message)
            ELSE Send(r, 200,
                      [domain |-> req[r].query.domain,
                       ads |-> [j \in 1..Len(ads.value) |->
                                  AdAt(j - 1 + cursor, BrandNameOf(kit.value),
                                       ads.value[j].color)]])
    /\ UNCHANGED <<req, local, fetchResult, bodyResult, calls>>

\* /generate-ads after `await fetchBrandKit(domain)` (lines 167-173).
GenerateAdsFinish(r) ==
    /\ pc[r] = "bodyRead"
    /\ req[r].route = "/generate-ads"
    /\ LET kit == ParseJson(bodyResult[r]) IN
       IF kit.threw THEN CatchAndRespond(r, kit.message)
       ELSE LET ads == generateAdsForKit(kit.value, local[r].count) IN
            IF ads.threw THEN CatchAndRespond(r, ads.message)
            ELSE Send(r, 200, [domain |-> req[r].query.domain, ads |-> ads.value])
    /\ UNCHANGED <<req, local, fetchResult, bodyResult, calls>>

\* Mutant: the proxy rejects a non-successful upstream status, as
\* fetchBrandKit does.
BrandkitResume_ChecksOk(r) ==
    /\ pc[r] = "fetched"
    /\ req[r].route = "/brandkit"
    /\ LET f == fetchResult[r] IN
       IF f.kind = "error" THEN Send(r, 500, [error |-> f.message])
       ELSE IF ~Ok(f)
            THEN Send(r, 500, [error |-> <<ToString(f.status), " ", f.statusText>>])
            ELSE /\ pc' = [pc EXCEPT ![r] = "awaitBody"]
                 /\ UNCHANGED <<res, responses>>
    /\ UNCHANGED <<req, local, fetchResult, bodyResult, calls>>

\* /brandkit after `await fetch(...)` (lines 9-12, 14-16): the status of the
\* upstream reply is not looked at.
BrandkitResume(r) ==
    /\ pc[r] = "fetched"
    /\ req[r].route = "/brandkit"
    /\ LET f == fetchResult[r] IN
       IF f.kind = "error" THEN Send(r, 500, [error |-> f.message])
       ELSE /\ pc' = [pc EXCEPT ![r] = "awaitBody"]
            /\ UNCHANGED <<res, responses>>
    /\ UNCHANGED <<req, local, fetchResult, bodyResult, calls>>

\* /brandkit after `await response.json()` (lines 12-16).
BrandkitFinish(r) ==
    /\ pc[r] = "bodyRead"
    /\ req[r].route = "/brandkit"
    /\ LET data == ParseJson(bodyResult[r]) IN
       IF data.threw THEN Send(r, 500, [error |-> data.message])
       ELSE Send(r, 200, data.value)
    /\ UNCHANGED <<req, local, fetchResult, bodyResult, calls>>

\* One request at a time, over the full input sets.
Next ==
    \/ \E r \in SoloReqs, d \in Domains, c \in CountParams : GenerateAdsStart(r, d, c)
    \/ \E r \in SoloReqs, d \in Domains : BrandkitStart(r, d)
    \/ \E r \in SoloReqs, o \in FetchOutcomes : RemoteResponds(r, o)
    \/ \E r \in SoloReqs, b \in Bodies : RemoteBody(r, b)
    \/ \E r \in SoloReqs : FetchBrandKitResume(r)
    \/ \E r \in SoloReqs : GenerateAdsFinish(r)
    \/ \E r \in SoloReqs : BrandkitResume(r)
    \/ \E r \in SoloReqs : BrandkitFinish(r)

Spec == Init /\ [][Next]_vars

\* Several /generate-ads requests in flight, interleaved at their awaits.
ConcNext ==
    \/ \E r \in Reqs, d \in ConcDomains, c \in ConcCountParams : GenerateAdsStart(r, d, c)
    \/ \E r \in Reqs, o \in ConcFetchOutcomes : RemoteResponds(r, o)
    \/ \E r \in Reqs, b \in ConcBodies : RemoteBody(r, b)
    \/ \E r \in Reqs : FetchBrandKitResume(r)
    \/ \E r \in Reqs : GenerateAdsFinish(r)

ConcSpec == Init /\ [][ConcNext]_vars

\* The specification of the liveness property: the same requests over the
\* fewest inputs that reach every outcome of a request (400, network error,
\* non-successful status, unreadable body, 200).
FairFetchOutcomes == ConcFetchOutcomes
FairBodies == {GarbageBody, JsonBody(Obj([name |-> Str("Acme")]))}

FairNext ==
    \/ \E r \in Reqs, d \in ConcDomains : GenerateAdsStart(r, d, Undefined)
    \/ \E r \in Reqs, o \in FairFetchOutcomes : RemoteResponds(r, o)
    \/ \E r \in Reqs, b \in FairBodies : RemoteBody(r, b)
    \/ \E r \in Reqs : FetchBrandKitResume(r)
    \/ \E r \in Reqs : GenerateAdsFinish(r)

\* The event loop runs a handler whose awaited promise has settled; nothing
\* obliges the remote side to reply.
FairSpec ==
    /\ Init
    /\ [][FairNext]_vars
    /\ \A r \in Reqs : WF_vars(FetchBrandKitResume(r)) /\ WF_vars(GenerateAdsFinish(r))

(***************************************************************************)
(* Vocabulary of the properties.                                           *)
(***************************************************************************)
Started(r) == pc[r] # "idle"
Answered(r) == pc[r] = "done"
IsGenerateAds(r) == Started(r) /\ req[r].route = "/generate-ads"
IsBrandkit(r) == Started(r) /\ req[r].route = "/brandkit"
HasDomain(r) == req[r].query.domain \notin {Undefined, Str("")}
Range(seq) == {seq[i] : i \in 1..Len(seq)}
ErrorBody(b) == DOMAIN b = {"error"}
\* /generate-ads answered 200: the reply was read and generation returned.
Succeeded(r) == IsGenerateAds(r) /\ Answered(r) /\ res[r].status = 200
KitOf(r) == bodyResult[r].value
TemplatePart(ad) == [headline |-> ad.headline, text |-> ad.text, cta |-> ad.cta]

\* A count parameter that is the decimal numeral of a non-negative integer.
IsNumeral(v) ==
    v.t = "string" /\ v.v # <<>> /\ \A i \in 1..Len(v.v) : v.v[i] \in Digits
NumeralValue(v) == DigitsValue(v.v, 0)

\* The brand name as the specification resolves it.
PresentTruthy(kit, k) ==
    /\ kit.t = "object"
    /\ k \in DOMAIN kit.f
    /\ kit.f[k].t = "string"
    /\ kit.f[k].v # ""
ExpectedBrand(kit) ==
    IF PresentTruthy(kit, "name") THEN kit.f.name
    ELSE IF PresentTruthy(kit, "domain") THEN kit.f.domain
         ELSE Str("Your brand")

\* The colour as the specification derives it.
HasTruthyHex(e) == PresentTruthy(e, "hex")
ColorItems(kit) ==
    IF kit.t = "object" /\ "colors" \in DOMAIN kit.f /\ kit.f.colors.t = "array"
    THEN kit.f.colors.items ELSE <<>>
ExpectedColour(kit) ==
    LET items == ColorItems(kit)
        hits == {i \in 1..Len(items) : HasTruthyHex(items[i])}
    IN IF hits = {} THEN Str("#0052cc")
       ELSE items[CHOOSE i \in hits : \A j \in hits : i <= j].f.hex

\* A kit whose shape makes generation throw: null itself, or a null entry of
\* kit.colors that no entry with a truthy hex precedes.
GenerationThrows(kit) ==
    \/ kit = Null
    \/ LET items == ColorItems(kit) IN
       \E i \in 1..Len(items) :
          /\ items[i] = Null
          /\ \A j \in 1..(i - 1) : ~HasTruthyHex(items[j])

\* C1: for a count that is a non-negative integer n, a 200 response carries
\* exactly n ads and ad i is template (i mod 10) of the resolved brand name.
C1_ExactlyNAds ==
    \A r \in Reqs :
       (Succeeded(r) /\ IsNumeral(req[r].query.count)) =>
          LET ads == res[r].body.ads
              n == NumeralValue(req[r].query.count)
          IN /\ Len(ads) = n
             /\ \A i \in 0..(n - 1) :
                   TemplatePart(ads[i + 1]) = templateFn(i % 10, ExpectedBrand(KitOf(r)))

\* The part of C1 that the code does satisfy: every positive n.
C1_PositiveCountLemma ==
    \A r \in Reqs :
       (Succeeded(r) /\ IsNumeral(req[r].query.count)
          /\ NumeralValue(req[r].query.count) > 0) =>
          LET ads == res[r].body.ads
              n == NumeralValue(req[r].query.count)
          IN /\ Len(ads) = n
             /\ \A i \in 0..(n - 1) :
                   TemplatePart(ads[i + 1]) = templateFn(i % 10, ExpectedBrand(KitOf(r)))

\* C2: a /generate-ads request whose domain is missing or empty is answered
\* 400 {error: 'Missing required query parameter: domain'}, whatever count is.
C2_MissingDomain400 ==
    \A r \in Reqs :
       (IsGenerateAds(r) /\ ~HasDomain(r)) =>
          /\ Answered(r)
          /\ res[r] = [status |-> 400,
                       body |-> [error |-> <<"Missing required query parameter: domain">>]]

C2_Witness ==
    \E r \in Reqs :
       /\ IsGenerateAds(r)
       /\ req[r].query.domain = Str("")
       /\ req[r].query.count = Str(<<"2", "0">>)
       /\ Answered(r)
       /\ res[r].status = 400

\* C3: when the Brand Proxy answers with a non-successful status, the handler
\* answers 500 {error: message}, the message contains the status code, and
\* the response carries no ads.
NonOkReply(r) ==
    /\ IsGenerateAds(r)
    /\ fetchResult[r] # None
    /\ fetchResult[r].kind = "response"
    /\ ~(fetchResult[r].status \in 200..299)

C3_NonOkStatus500 ==
    \A r \in Reqs :
       NonOkReply(r) =>
          /\ pc[r] \in {"fetched", "done"}
          /\ Answered(r) =>
                /\ res[r].status = 500
                /\ ErrorBody(res[r].body)
                /\ ToString(fetchResult[r].status) \in Range(res[r].body.error)

C3_Witness ==
    \E r \in Reqs :
       /\ NonOkReply(r)
       /\ fetchResult[r].status = 404
       /\ Answered(r)
       /\ res[r].status = 500
       /\ "404" \in Range(res[r].body.error)

\* C4: in a 200 response all ads carry one colour: the hex of the first entry
\* of kit.colors with a truthy hex, and '#0052cc' when there is none.
C4_PrimaryColour ==
    \A r \in Reqs :
       Succeeded(r) =>
          \A i \in 1..Len(res[r].body.ads) :
             res[r].body.ads[i].color = ExpectedColour(KitOf(r))

C4_Witness ==
    \E r \in Reqs :
       /\ Succeeded(r)
       /\ ColorItems(KitOf(r)) = <<Obj([hex |-> Null]), Obj([hex |-> Str("#abc123")])>>
       /\ Len(res[r].body.ads) = 3
       /\ \A i \in 1..3 : res[r].body.ads[i].color = Str("#abc123")

\* C5: every template of a response is applied to kit.name when truthy, else
\* kit.domain when truthy, else 'Your brand'; never to the request's domain.
C5_BrandName ==
    \A r \in Reqs :
       Succeeded(r) =>
          \A i \in 1..Len(res[r].body.ads) :
             LET k == (i - 1) % 10 IN
             /\ TemplatePart(res[r].body.ads[i]) = templateFn(k, ExpectedBrand(KitOf(r)))
             /\ ExpectedBrand(KitOf(r)) # req[r].query.domain =>
                   TemplatePart(res[r].body.ads[i]) # templateFn(k, req[r].query.domain)

C5_Witness ==
    \E r \in Reqs :
       /\ Succeeded(r)
       /\ KitOf(r).t = "object"
       /\ DOMAIN KitOf(r).f = {"name", "domain"}
       /\ KitOf(r).f.name = Str("")
       /\ Len(res[r].body.ads) = 2
       /\ res[r].body.ads[1].headline = "Experience acme.com first-hand"

\* C6: the number of ads is 3 when count is missing or does not parse as an
\* integer, and the parsed integer itself in every other case.
C6_CountDefaultOrParsed ==
    \A r \in Reqs :
       Succeeded(r) =>
          LET p == parseInt(req[r].query.count) IN
          Len(res[r].body.ads) = IF p.nan THEN 3 ELSE p.n

\* The part of C6 that the code does satisfy: a positive parsed count, also
\* one above the ten templates, yields that many ads.
C6_PositiveCountLemma ==
    \A r \in Reqs :
       Succeeded(r) =>
          LET p == parseInt(req[r].query.count) IN
          /\ p.nan => Len(res[r].body.ads) = 3
          /\ (~p.nan /\ p.n > 0) => Len(res[r].body.ads) = p.n

\* C7: /brandkit answers 200 with the upstream's JSON value unchanged, or 500
\* {error: message} on a network error or a non-JSON body; no other status,
\* and the upstream's HTTP status does not decide between the two.
C7_BrandkitRelay ==
    \A r \in Reqs :
       (IsBrandkit(r) /\ Answered(r)) =>
          LET f == fetchResult[r]
              relayed == f.kind = "response" /\ bodyResult[r] # None
                            /\ bodyResult[r].wellFormed
          IN /\ res[r].status \in {200, 500}
             /\ f.kind = "response" => bodyResult[r] # None
             /\ res[r].status = 200 <=> relayed
             /\ res[r].status = 200 => res[r].body = bodyResult[r].value
             /\ res[r].status = 500 => ErrorBody(res[r].body)

C7_Witness ==
    \E r \in Reqs :
       /\ IsBrandkit(r)
       /\ Answered(r)
       /\ fetchResult[r].kind = "response"
       /\ fetchResult[r].status = 404
       /\ res[r].status = 200
       /\ res[r].body = Obj([name |-> Str("Acme")])

\* C8: with a domain, an error thrown while fetching the kit or generating
\* the ads (connection error, malformed JSON, a kit on which generation
\* throws) is answered 500 {error: message}: never 200, never partial ads.
ErrorThrown(r) ==
    \/ fetchResult[r] # None /\ fetchResult[r].kind = "error"
    \/ NonOkReply(r)
    \/ bodyResult[r] # None /\ ~bodyResult[r].wellFormed
    \/ bodyResult[r] # None /\ bodyResult[r].wellFormed /\ GenerationThrows(KitOf(r))

C8_ThrownErrors500 ==
    \A r \in Reqs :
       (IsGenerateAds(r) /\ HasDomain(r) /\ Answered(r) /\ ErrorThrown(r)) =>
          /\ res[r].status = 500
          /\ ErrorBody(res[r].body)
          /\ Len(res[r].body.error) > 0

C8_Witness ==
    \E r \in Reqs :
       /\ IsGenerateAds(r)
       /\ Answered(r)
       /\ bodyResult[r] # None
       /\ bodyResult[r].wellFormed
       /\ ColorItems(KitOf(r)) = <<Obj([hex |-> Null]), Null>>
       /\ res[r].status = 500
       /\ ErrorBody(res[r].body)

\* C9: two /generate-ads requests with the same domain and count whose proxy
\* calls got the same reply get the same response, whatever was interleaved.
SameInputs(p, q) ==
    /\ req[p] = req[q]
    /\ fetchResult[p] = fetchResult[q]
    /\ bodyResult[p] = bodyResult[q]

C9_ResponseDeterminedByInputs ==
    \A p, q \in Reqs :
       (IsGenerateAds(p) /\ IsGenerateAds(q) /\ Answered(p) /\ Answered(q)
          /\ SameInputs(p, q)) => res[p] = res[q]

C9_Witness ==
    \E p, q \in Reqs :
       /\ p # q
       /\ Succeeded(p)
       /\ Succeeded(q)
       /\ SameInputs(p, q)
       /\ Len(res[p].body.ads) = 2
       /\ res[p] = res[q]

\* C10: a request sends at most one response and issues at most one proxy
\* call: none without a domain, exactly one with it, never a retry.  With a
\* domain it is answered only once the call has completed, and once the call
\* has completed it is eventually answered.
CallCompleted(r) ==
    /\ IsGenerateAds(r)
    /\ \/ fetchResult[r] # None /\ fetchResult[r].kind = "error"
       \/ NonOkReply(r)
       \/ bodyResult[r] # None

C10_Safety ==
    \A r \in Reqs :
       /\ calls[r] <= 1
       /\ responses[r] <= 1
       /\ responses[r] = 1 <=> Answered(r)
       /\ (IsGenerateAds(r) /\ ~HasDomain(r)) => calls[r] = 0 /\ responses[r] = 1
       /\ (IsGenerateAds(r) /\ HasDomain(r)) =>
             /\ calls[r] = 1
             /\ responses[r] = 1 => CallCompleted(r)

C10_OneCallOneResponse ==
    /\ []C10_Safety
    /\ \A r \in Reqs : CallCompleted(r) ~> Answered(r)

C10_Witness ==
    \E p, q \in Reqs :
       /\ IsGenerateAds(p) /\ HasDomain(p) /\ Answered(p)
       /\ fetchResult[p].kind = "error"
       /\ calls[p] = 1 /\ responses[p] = 1
       /\ IsGenerateAds(q) /\ HasDomain(q)
       /\ pc[q] = "awaitFetch"
       /\ calls[q] = 1 /\ responses[q] = 0

====
